---- MODULE Spec2Model ----
(***************************************************************************)
(* dali::detail::LookaheadParser (dali/pipeline/util/lookahead_parser.h):  *)
(* a one-token-lookahead pull parser over rapidjson's iterative SAX        *)
(* reader.  The handler fields st_, v_, r_, ss_ are the state; every       *)
(* public operation is one action; the do-while loop of SkipOut is stepped *)
(* one iteration at a time under a program counter, the caller being       *)
(* blocked meanwhile.  The document is not fixed in advance: each call of  *)
(* the reader draws the next event the JSON grammar allows, or a syntax    *)
(* error, so that every document within the bounds is covered.             *)
(***************************************************************************)
EXTENDS Integers, Sequences, FiniteSets, TLC

\* ------------------------------------------------------------------ bounds
\* Longest document, in events, that the reader produces.
MaxEvents == 5
\* Most scalars of one document drawn from RareScalars.
MaxRare == 1

\* --------------------------------------------- enum LookaheadParsingState
kInit == 0
kError == 1
kHasNull == 2
kHasBool == 3
kHasNumber == 4
kHasString == 5
kHasKey == 6
kEnteringObject == 7
kExitingObject == 8
kEnteringArray == 9
kExitingArray == 10

\* ------------------------------------------------------- rapidjson::Type
kNullType == 0
kFalseType == 1
kTrueType == 2
kObjectType == 3
kArrayType == 4
kStringType == 5
kNumberType == 6

\* 2^31 - 1, the largest native int; a 64-bit number n is held as the pair
\* hi = n >> 31 (arithmetic shift), lo = n & 0x7FFFFFFF.
IntMax == 2147483647

VARIABLES
  st_,    \* LookaheadParsingState of the current token
  v_,     \* rapidjson::Value buffered with the current token
  r_,     \* rapidjson::Reader: iterative parsing state, stack, parse error
  ss_,    \* InsituStringStream: the events tokenized from it so far
  pc,     \* "idle": the caller is between calls; "SkipOut": inside the loop
  depth,  \* SkipOut's local depth counter (0 when not in SkipOut)
  call,   \* the last public call: operation, result, fetches, token before it
  trav    \* the traversing client of TravSpec (switched off under Spec)

parserVars == <<st_, v_, r_, ss_, pc, depth, call>>
vars == <<st_, v_, r_, ss_, pc, depth, call, trav>>

\* ------------------------------------------------------ rapidjson::Value
\* kind: "null", "bool", "number", "string"; rep: which Set* stored a number.
MkValue(kind, b, rep, hi, lo, fr, s) ==
  [kind |-> kind, b |-> b, rep |-> rep, hi |-> hi, lo |-> lo, fr |-> fr, s |-> s]

SetNull == MkValue("null", FALSE, "", 0, 0, 0, "")
SetBool(b) == MkValue("bool", b, "", 0, 0, 0, "")
SetInt(e) == MkValue("number", FALSE, "Int", e.hi, e.lo, 0, "")
SetUint(e) == MkValue("number", FALSE, "Uint", e.hi, e.lo, 0, "")
SetInt64(e) == MkValue("number", FALSE, "Int64", e.hi, e.lo, 0, "")
SetUint64(e) == MkValue("number", FALSE, "Uint64", e.hi, e.lo, 0, "")
SetDouble(e) == MkValue("number", FALSE, "Double", e.hi, e.lo, e.fr, "")
SetString(s) == MkValue("string", FALSE, "", 0, 0, 0, s)

\* Value::IsInt: the kIntFlag is set for an integer in [-2^31, 2^31), whichever
\* of SetInt/SetUint/SetInt64/SetUint64 stored it, and never by SetDouble.
IsInt(v) == v.kind = "number" /\ v.rep # "Double" /\ v.hi \in {-1, 0}

\* Value::GetInt of a value with IsInt: the native int hi * 2^31 + lo.
ValueGetInt(v) == IF v.hi = 0 THEN v.lo ELSE v.lo - IntMax - 1

\* Value::GetDouble: the stored double, or the stored integer converted to
\* double (exact below 2^53): integer part hi * 2^31 + lo, fr hundredths.
ValueGetDouble(v) ==
  IF v.rep = "Double" THEN [hi |-> v.hi, lo |-> v.lo, fr |-> v.fr]
  ELSE [hi |-> v.hi, lo |-> v.lo, fr |-> 0]

\* Value::GetType
GetType(v) ==
  CASE v.kind = "null" -> kNullType
    [] v.kind = "bool" -> IF v.b THEN kTrueType ELSE kFalseType
    [] v.kind = "string" -> kStringType
    [] v.kind = "number" -> kNumberType

\* ------------------------------------------------- events of the reader
MkEvent(ev, b, hi, lo, fr, s) ==
  [ev |-> ev, b |-> b, hi |-> hi, lo |-> lo, fr |-> fr, s |-> s]

Structural(ev) == MkEvent(ev, FALSE, 0, 0, 0, "")

\* The scalars of the documents: null, true, 42 (a Uint event holding an int)
\* and "s" anywhere ...
CommonScalars ==
  { Structural("Null"), MkEvent("Bool", TRUE, 0, 0, 0, ""),
    MkEvent("Uint", FALSE, 0, 42, 0, ""), MkEvent("String", FALSE, 0, 0, 0, "s") }

\* ... and, at most MaxRare of them per document: false, -7 (Int), 2^31 (Uint,
\* no int), -2^31 - 1 (Int64), 2^32 (Uint64), 3.14 (Double).
RareScalars ==
  { MkEvent("Bool", FALSE, 0, 0, 0, ""),
    MkEvent("Int", FALSE, -1, IntMax - 6, 0, ""),
    MkEvent("Uint", FALSE, 1, 0, 0, ""),
    MkEvent("Int64", FALSE, -2, IntMax, 0, ""),
    MkEvent("Uint64", FALSE, 2, 0, 0, ""),
    MkEvent("Double", FALSE, 0, 3, 14, "") }

ScalarEvents == CommonScalars \cup RareScalars

\* A number handed over as its text, as a reader parsing with
\* kParseNumbersAsStringsFlag does for every number.
RawNumberEvent == MkEvent("RawNumber", FALSE, 0, 0, 0, "42")

\* The scalars of such a reader.
RawScalarEvents ==
  {e \in ScalarEvents : e.ev \in {"Null", "Bool", "String"}} \cup {RawNumberEvent}

KeyEvents == { MkEvent("Key", FALSE, 0, 0, 0, "a"), MkEvent("Key", FALSE, 0, 0, 0, "b") }

\* ----------------------------------- LookaheadParserHandler's callbacks
\* h is the handler object: [st_, v_, r_, ss_].
\* Null without v_.SetNull(): the value of the token before stays buffered.
NullKeepingValue(h) == [h EXCEPT !.st_ = kHasNull]

Null(h) == [h EXCEPT !.st_ = kHasNull, !.v_ = SetNull]
Bool(h, e) == [h EXCEPT !.st_ = kHasBool, !.v_ = SetBool(e.b)]
Int_(h, e) == [h EXCEPT !.st_ = kHasNumber, !.v_ = SetInt(e)]
Uint(h, e) == [h EXCEPT !.st_ = kHasNumber, !.v_ = SetUint(e)]
Int64(h, e) == [h EXCEPT !.st_ = kHasNumber, !.v_ = SetInt64(e)]
Uint64(h, e) == [h EXCEPT !.st_ = kHasNumber, !.v_ = SetUint64(e)]
Double(h, e) == [h EXCEPT !.st_ = kHasNumber, !.v_ = SetDouble(e)]
\* RawNumber touches nothing and returns false (see Returns).
RawNumber(h, e) == h
String(h, e) == [h EXCEPT !.st_ = kHasString, !.v_ = SetString(e.s)]
StartObject(h) == [h EXCEPT !.st_ = kEnteringObject]
\* Key setting the state and leaving v_ as it was.
KeyWithoutText(h, e) == [h EXCEPT !.st_ = kHasKey]

Key(h, e) == [h EXCEPT !.st_ = kHasKey, !.v_ = SetString(e.s)]
EndObject(h) == [h EXCEPT !.st_ = kExitingObject]
StartArray(h) == [h EXCEPT !.st_ = kEnteringArray]
EndArray(h) == [h EXCEPT !.st_ = kExitingArray]

\* What the callback of event e returns to the reader: false stops the parse.
Returns(e) == e.ev # "RawNumber"

\* The reader invoking the callback of event e on the handler.
Dispatch(h, e) ==
  CASE e.ev = "Null" -> Null(h)
    [] e.ev = "Bool" -> Bool(h, e)
    [] e.ev = "Int" -> Int_(h, e)
    [] e.ev = "Uint" -> Uint(h, e)
    [] e.ev = "Int64" -> Int64(h, e)
    [] e.ev = "Uint64" -> Uint64(h, e)
    [] e.ev = "Double" -> Double(h, e)
    [] e.ev = "RawNumber" -> RawNumber(h, e)
    [] e.ev = "String" -> String(h, e)
    [] e.ev = "StartObject" -> StartObject(h)
    [] e.ev = "Key" -> Key(h, e)
    [] e.ev = "EndObject" -> EndObject(h)
    [] e.ev = "StartArray" -> StartArray(h)
    [] e.ev = "EndArray" -> EndArray(h)

\* ------------------------------- rapidjson::Reader, iterative parsing
\* r.state is the IterativeParsingState (the delimiter states are folded into
\* the step that follows the delimiter); r.stack holds, per open container,
\* the state to restore when it closes; r.err is HasParseError(); r.raw is
\* whether parseFlags hold kParseNumbersAsStringsFlag, which they do only in a
\* build that defines RAPIDJSON_PARSE_DEFAULT_FLAGS so.
IterativeParseInit ==
  [state |-> "Start", stack |-> <<>>, err |-> FALSE, raw |-> FALSE]

\* The scalar events reader r emits.
ScalarsOf(r) == IF r.raw THEN RawScalarEvents ELSE ScalarEvents

\* The events the JSON grammar allows next.
Predict(r) ==
  CASE r.state \in {"Start", "MemberKey"} ->
         ScalarsOf(r) \cup {Structural("StartObject"), Structural("StartArray")}
    [] r.state \in {"ArrayInitial", "Element"} ->
         ScalarsOf(r) \cup {Structural("StartObject"), Structural("StartArray"),
                            Structural("EndArray")}
    [] r.state \in {"ObjectInitial", "MemberValue"} ->
         KeyEvents \cup {Structural("EndObject")}
    [] r.state = "Finish" -> {}

\* The state restored after a value ends in state src.
AfterValue(src) ==
  CASE src = "Start" -> "Finish"
    [] src = "MemberKey" -> "MemberValue"
    [] src \in {"ArrayInitial", "Element"} -> "Element"

\* The reader after event e.
Transit(r, e) ==
  CASE e.ev = "StartObject" ->
         [r EXCEPT !.state = "ObjectInitial", !.stack = Append(@, AfterValue(r.state))]
    [] e.ev = "StartArray" ->
         [r EXCEPT !.state = "ArrayInitial", !.stack = Append(@, AfterValue(r.state))]
    [] e.ev \in {"EndObject", "EndArray"} ->
         [r EXCEPT !.state = r.stack[Len(r.stack)],
                   !.stack = SubSeq(@, 1, Len(@) - 1)]
    [] e.ev = "Key" -> [r EXCEPT !.state = "MemberKey"]
    [] OTHER -> [r EXCEPT !.state = AfterValue(r.state)]

\* The events still needed to complete the document read so far.
Needed(r) == Len(r.stack) + (IF r.state = "MemberKey" THEN 1 ELSE 0)

\* The documents stay within MaxEvents events, those needed to complete them
\* included, and within MaxRare rare scalars.
InBounds(h, e) ==
  /\ Len(h.ss_) + 1 + Needed(Transit(h.r_, e)) <= MaxEvents
  /\ e \in RareScalars =>
       Cardinality({i \in 1..Len(h.ss_) : h.ss_[i] \in RareScalars}) < MaxRare

\* Reader::IterativeParseNext: every outcome of one step on some input.
\*  - the document is finished: no callback, no error;
\*  - a syntax error: the error is recorded, no callback is invoked;
\*  - an event: its callback is invoked; when it completes the document,
\*    text following it is a syntax error recorded in the same step;
\*  - an event whose callback returns false: the parse is terminated, which
\*    the reader records as an error.
IterativeParseNext(h) ==
  IF h.r_.state = "Finish" THEN {h}
  ELSE {[h EXCEPT !.r_.err = TRUE]}
       \cup UNION { LET h2 == [Dispatch(h, e) EXCEPT !.r_ = Transit(h.r_, e),
                                                      !.ss_ = Append(h.ss_, e)]
                    IN IF ~Returns(e)
                         THEN {[Dispatch(h, e) EXCEPT !.r_.err = TRUE,
                                                      !.ss_ = Append(h.ss_, e)]}
                       ELSE IF h2.r_.state = "Finish"
                         THEN {h2, [h2 EXCEPT !.r_.err = TRUE]}
                         ELSE {h2}
                    : e \in {x \in Predict(h.r_) : InBounds(h, x)} }

\* ------------------------------------------ LookaheadParserHandler
\* ParseNext: every handler it can leave.
ParseNext(h) ==
  IF h.r_.err THEN {[h EXCEPT !.st_ = kError]}
  ELSE IterativeParseNext(h)

\* The calls of IterativeParseNext that one ParseNext on h makes.
Asks(h) == IF h.r_.err THEN 0 ELSE 1

\* The handler object as it stands.
H == [st_ |-> st_, v_ |-> v_, r_ |-> r_, ss_ |-> ss_]

\* ---------------------------------------------------- results of calls
RetVoid == [t |-> "void"]
RetBool(b) == [t |-> "bool", b |-> b]
RetInt(i) == [t |-> "int", i |-> i]
RetDouble(d) == [t |-> "double", d |-> d]
RetStr(s) == [t |-> "str", s |-> s]
RetPtr(v) == [t |-> "ptr", v |-> v]
RetNullPtr == [t |-> "nullptr"]

\* The record of a call: op, what it returned, the calls of ParseNext and of
\* IterativeParseNext it made, and the token, the stream position and the
\* reader's error flag it found; from is the position of the event a skip
\* starts at (0: none).
MkCall(op, ret, fetches, asks, from) ==
  [op |-> op, ret |-> ret, fetches |-> fetches, asks |-> asks,
   st0 |-> st_, v0 |-> v_, len0 |-> Len(ss_), err0 |-> r_.err, from |-> from]

\* A call returns leaving handler h.
Return(h, op, ret, fetches, asks) ==
  /\ st_' = h.st_
  /\ v_' = h.v_
  /\ r_' = h.r_
  /\ ss_' = h.ss_
  /\ call' = MkCall(op, ret, fetches, asks, 0)
  /\ UNCHANGED <<pc, depth>>

TravOff == [pc |-> "off", stack |-> <<>>, log |-> <<>>]

\* LookaheadParserHandler's constructor with a reader that starts as r0:
\* v_(), st_(kInit), r_(), ss_(str), IterativeParseInit, ParseNext.
Constructed(r0) ==
  LET h0 == [st_ |-> kInit, v_ |-> SetNull, r_ |-> r0, ss_ |-> <<>>]
  IN \E h \in ParseNext(h0) :
       /\ st_ = h.st_
       /\ v_ = h.v_
       /\ r_ = h.r_
       /\ ss_ = h.ss_
       /\ pc = "idle"
       /\ depth = 0
       /\ call = [op |-> "LookaheadParser", ret |-> RetVoid, fetches |-> 1,
                  asks |-> 1, st0 |-> kInit, v0 |-> SetNull, len0 |-> 0,
                  err0 |-> FALSE, from |-> 0]

Construct == Constructed(IterativeParseInit)

Init == Construct /\ trav = TravOff

\* ------------------------------------------------------ LookaheadParser
\* EnterObject that enters an array as well.
EnterObjectOrArray ==
  /\ pc = "idle"
  /\ IF st_ # kEnteringObject /\ st_ # kEnteringArray
       THEN Return([H EXCEPT !.st_ = kError], "EnterObject", RetBool(FALSE), 0, 0)
       ELSE \E h \in ParseNext(H) :
              Return(h, "EnterObject", RetBool(TRUE), 1, Asks(H))

EnterObject ==
  /\ pc = "idle"
  /\ IF st_ # kEnteringObject
       THEN Return([H EXCEPT !.st_ = kError], "EnterObject", RetBool(FALSE), 0, 0)
       ELSE \E h \in ParseNext(H) :
              Return(h, "EnterObject", RetBool(TRUE), 1, Asks(H))

\* EnterArray that fetches before it inspects the state.
EnterArrayFetchFirst ==
  /\ pc = "idle"
  /\ \E h \in ParseNext(H) :
       IF st_ # kEnteringArray
         THEN Return([h EXCEPT !.st_ = kError], "EnterArray", RetBool(FALSE),
                     1, Asks(H))
         ELSE Return(h, "EnterArray", RetBool(TRUE), 1, Asks(H))

EnterArray ==
  /\ pc = "idle"
  /\ IF st_ # kEnteringArray
       THEN Return([H EXCEPT !.st_ = kError], "EnterArray", RetBool(FALSE), 0, 0)
       ELSE \E h \in ParseNext(H) :
              Return(h, "EnterArray", RetBool(TRUE), 1, Asks(H))

\* NextObjectKey that returns null on a mismatch without setting kError.
NextObjectKeyLenient ==
  /\ pc = "idle"
  /\ IF st_ = kHasKey
       THEN \E h \in ParseNext(H) :
              Return(h, "NextObjectKey", RetStr(v_.s), 1, Asks(H))
       ELSE IF st_ # kExitingObject
         THEN Return(H, "NextObjectKey", RetNullPtr, 0, 0)
         ELSE \E h \in ParseNext(H) :
                Return(h, "NextObjectKey", RetNullPtr, 1, Asks(H))

NextObjectKey ==
  /\ pc = "idle"
  /\ IF st_ = kHasKey
       THEN \E h \in ParseNext(H) :
              Return(h, "NextObjectKey", RetStr(v_.s), 1, Asks(H))
       ELSE IF st_ # kExitingObject
         THEN Return([H EXCEPT !.st_ = kError], "NextObjectKey", RetNullPtr, 0, 0)
         ELSE \E h \in ParseNext(H) :
                Return(h, "NextObjectKey", RetNullPtr, 1, Asks(H))

\* NextArrayValue without the error branch: a key or the end of an object
\* counts as a value.
NextArrayValueUnchecked ==
  /\ pc = "idle"
  /\ IF st_ = kExitingArray
       THEN \E h \in ParseNext(H) :
              Return(h, "NextArrayValue", RetBool(FALSE), 1, Asks(H))
       ELSE Return(H, "NextArrayValue", RetBool(TRUE), 0, 0)

NextArrayValue ==
  /\ pc = "idle"
  /\ IF st_ = kExitingArray
       THEN \E h \in ParseNext(H) :
              Return(h, "NextArrayValue", RetBool(FALSE), 1, Asks(H))
       ELSE IF st_ = kError \/ st_ = kExitingObject \/ st_ = kHasKey
         THEN Return([H EXCEPT !.st_ = kError], "NextArrayValue", RetBool(FALSE), 0, 0)
         ELSE Return(H, "NextArrayValue", RetBool(TRUE), 0, 0)

\* GetInt without the IsInt test: a number that is no int is truncated.
GetIntTruncating ==
  /\ pc = "idle"
  /\ IF st_ # kHasNumber
       THEN Return([H EXCEPT !.st_ = kError], "GetInt", RetInt(0), 0, 0)
       ELSE \E h \in ParseNext(H) :
              Return(h, "GetInt", RetInt(ValueGetInt(v_)), 1, Asks(H))

GetInt ==
  /\ pc = "idle"
  /\ IF st_ # kHasNumber \/ ~IsInt(v_)
       THEN Return([H EXCEPT !.st_ = kError], "GetInt", RetInt(0), 0, 0)
       ELSE \E h \in ParseNext(H) :
              Return(h, "GetInt", RetInt(ValueGetInt(v_)), 1, Asks(H))

GetDouble ==
  /\ pc = "idle"
  /\ IF st_ # kHasNumber
       THEN Return([H EXCEPT !.st_ = kError], "GetDouble",
                   RetDouble([hi |-> 0, lo |-> 0, fr |-> 0]), 0, 0)
       ELSE \E h \in ParseNext(H) :
              Return(h, "GetDouble", RetDouble(ValueGetDouble(v_)), 1, Asks(H))

GetBool ==
  /\ pc = "idle"
  /\ IF st_ # kHasBool
       THEN Return([H EXCEPT !.st_ = kError], "GetBool", RetBool(FALSE), 0, 0)
       ELSE \E h \in ParseNext(H) :
              Return(h, "GetBool", RetBool(v_.b), 1, Asks(H))

GetNull ==
  /\ pc = "idle"
  /\ IF st_ # kHasNull
       THEN Return([H EXCEPT !.st_ = kError], "GetNull", RetVoid, 0, 0)
       ELSE \E h \in ParseNext(H) :
              Return(h, "GetNull", RetVoid, 1, Asks(H))

\* GetString taking a key for a string.
GetStringOfKey ==
  /\ pc = "idle"
  /\ IF st_ # kHasString /\ st_ # kHasKey
       THEN Return([H EXCEPT !.st_ = kError], "GetString", RetNullPtr, 0, 0)
       ELSE \E h \in ParseNext(H) :
              Return(h, "GetString", RetStr(v_.s), 1, Asks(H))

GetString ==
  /\ pc = "idle"
  /\ IF st_ # kHasString
       THEN Return([H EXCEPT !.st_ = kError], "GetString", RetNullPtr, 0, 0)
       ELSE \E h \in ParseNext(H) :
              Return(h, "GetString", RetStr(v_.s), 1, Asks(H))

\* A skip is called: SkipOut(d) is entered with the handler untouched.
EnterSkipOut(op, d, from) ==
  /\ pc = "idle"
  /\ pc' = "SkipOut"
  /\ depth' = d
  /\ call' = MkCall(op, RetVoid, 0, 0, from)
  /\ UNCHANGED <<st_, v_, r_, ss_>>

\* The position of the open event of the container that the call before
\* this one entered (0 when that call was no successful enter of kind op).
JustEntered(op) ==
  IF call.op = op /\ call.ret = RetBool(TRUE) THEN call.len0 ELSE 0

\* SkipValue starting at depth 1, as SkipArray does.
SkipValueFromOne == EnterSkipOut("SkipValue", 1, Len(ss_))

\* SkipValue starting below depth 0: the open event of a container ends it.
SkipValueFromBelow == EnterSkipOut("SkipValue", -1, Len(ss_))

SkipValue == EnterSkipOut("SkipValue", 0, Len(ss_))

\* SkipArray starting at depth 0, as SkipValue does.
SkipArrayFromZero == EnterSkipOut("SkipArray", 0, JustEntered("EnterArray"))

SkipArray == EnterSkipOut("SkipArray", 1, JustEntered("EnterArray"))

SkipObject == EnterSkipOut("SkipObject", 1, JustEntered("EnterObject"))

\* The counters of a call count up to MaxEvents + 3 and go on from there
\* between MaxEvents + 2 and MaxEvents + 3, numbers that no call that returns
\* reaches: an iteration of a loop that runs on is a step still.
Count(n) == IF n < MaxEvents + 3 THEN n + 1 ELSE MaxEvents + 2

\* SkipOut without the test for kError: it fetches whatever the state.
SkipOutUnchecked ==
  /\ pc = "SkipOut"
  /\ LET d == IF st_ = kEnteringArray \/ st_ = kEnteringObject THEN depth + 1
              ELSE IF st_ = kExitingArray \/ st_ = kExitingObject THEN depth - 1
              ELSE depth
     IN \E h \in ParseNext(H) :
          /\ st_' = h.st_
          /\ v_' = h.v_
          /\ r_' = h.r_
          /\ ss_' = h.ss_
          /\ call' = [call EXCEPT !.fetches = Count(@),
                                  !.asks = IF Asks(H) = 1 THEN Count(@) ELSE @]
          /\ pc' = IF d > 0 THEN "SkipOut" ELSE "idle"
          /\ depth' = IF d > 0 THEN d ELSE 0

\* One iteration of SkipOut's do-while loop, up to its loop condition.
SkipOut ==
  /\ pc = "SkipOut"
  /\ LET d == IF st_ = kEnteringArray \/ st_ = kEnteringObject THEN depth + 1
              ELSE IF st_ = kExitingArray \/ st_ = kExitingObject THEN depth - 1
              ELSE depth
     IN IF st_ = kError
          THEN /\ pc' = "idle"
               /\ depth' = 0
               /\ UNCHANGED <<st_, v_, r_, ss_, call>>
          ELSE \E h \in ParseNext(H) :
                 /\ st_' = h.st_
                 /\ v_' = h.v_
                 /\ r_' = h.r_
                 /\ ss_' = h.ss_
                 /\ call' = [call EXCEPT !.fetches = Count(@),
                                         !.asks = IF Asks(H) = 1 THEN Count(@) ELSE @]
                 /\ pc' = IF d > 0 THEN "SkipOut" ELSE "idle"
                 /\ depth' = IF d > 0 THEN d ELSE 0

\* PeekValue that returns the buffered value in kEnteringObject too.
PeekValueWide ==
  /\ pc = "idle"
  /\ IF st_ >= kHasNull /\ st_ <= kEnteringObject
       THEN Return(H, "PeekValue", RetPtr(v_), 0, 0)
       ELSE Return(H, "PeekValue", RetNullPtr, 0, 0)

PeekValue ==
  /\ pc = "idle"
  /\ IF st_ >= kHasNull /\ st_ <= kHasKey
       THEN Return(H, "PeekValue", RetPtr(v_), 0, 0)
       ELSE Return(H, "PeekValue", RetNullPtr, 0, 0)

\* What PeekType returns on handler h.
PeekTypeOf(h) ==
  IF h.st_ >= kHasNull /\ h.st_ <= kHasKey THEN GetType(h.v_)
  ELSE IF h.st_ = kEnteringArray THEN kArrayType
  ELSE IF h.st_ = kEnteringObject THEN kObjectType
  ELSE -1

\* PeekType consuming the token it reports.
PeekTypeConsuming ==
  /\ pc = "idle"
  /\ \E h \in ParseNext(H) :
       Return(h, "PeekType", RetInt(PeekTypeOf(H)), 1, Asks(H))

PeekType ==
  /\ pc = "idle"
  /\ Return(H, "PeekType", RetInt(PeekTypeOf(H)), 0, 0)

IsValid ==
  /\ pc = "idle"
  /\ Return(H, "IsValid", RetBool(st_ # kError), 0, 0)

\* ------------------------------------------------------------- any caller
Next ==
  \/ EnterObject /\ UNCHANGED trav
  \/ EnterArray /\ UNCHANGED trav
  \/ NextObjectKey /\ UNCHANGED trav
  \/ NextArrayValue /\ UNCHANGED trav
  \/ GetInt /\ UNCHANGED trav
  \/ GetDouble /\ UNCHANGED trav
  \/ GetBool /\ UNCHANGED trav
  \/ GetNull /\ UNCHANGED trav
  \/ GetString /\ UNCHANGED trav
  \/ SkipValue /\ UNCHANGED trav
  \/ SkipArray /\ UNCHANGED trav
  \/ SkipObject /\ UNCHANGED trav
  \/ SkipOut /\ UNCHANGED trav
  \/ PeekValue /\ UNCHANGED trav
  \/ PeekType /\ UNCHANGED trav
  \/ IsValid /\ UNCHANGED trav

Spec == Init /\ [][Next]_vars

\* --------------------------------------------------- a traversing caller
\* The caller of the specification's round trip: it visits every node once,
\* an object by EnterObject and NextObjectKey until that returns null, an
\* array by EnterArray and NextArrayValue until that returns false, a scalar
\* by the getter PeekType and PeekValue name, and logs what the calls return.
\* trav.pc is what it expects next: "value", "key", "elem"; "done" after the
\* root value; "fail" when no value is where one is expected.
Item(k, b, hi, lo, fr, s) ==
  [k |-> k, b |-> b, hi |-> hi, lo |-> lo, fr |-> fr, s |-> s]

Mark(k) == Item(k, FALSE, 0, 0, 0, "")

\* What the document holds at event e.
ItemOf(e) ==
  CASE e.ev = "StartObject" -> Mark("{")
    [] e.ev = "EndObject" -> Mark("}")
    [] e.ev = "StartArray" -> Mark("[")
    [] e.ev = "EndArray" -> Mark("]")
    [] e.ev = "Key" -> Item("key", FALSE, 0, 0, 0, e.s)
    [] e.ev = "Null" -> Mark("null")
    [] e.ev = "Bool" -> Item("bool", e.b, 0, 0, 0, "")
    [] e.ev = "String" -> Item("string", FALSE, 0, 0, 0, e.s)
    [] OTHER -> Item("number", FALSE, e.hi, e.lo, e.fr, "")

\* The document read so far.
Document == [i \in 1..Len(ss_) |-> ItemOf(ss_[i])]

\* What the caller logs for the int i that GetInt returned.
ItemOfInt(i) ==
  IF i >= 0 THEN Item("number", FALSE, 0, i, 0, "")
  ELSE Item("number", FALSE, -1, (i + IntMax) + 1, 0, "")

TravInit ==
  /\ Construct
  /\ trav = [pc |-> "value", stack |-> <<>>, log |-> <<>>]

\* What the caller expects after a value in the containers of stack.
Up(stack) ==
  IF stack = <<>> THEN "done"
  ELSE IF stack[Len(stack)] = "obj" THEN "key" ELSE "elem"

Logged(item, stack, next) ==
  trav' = [pc |-> next, stack |-> stack, log |-> Append(trav.log, item)]

Pop(stack) == SubSeq(stack, 1, Len(stack) - 1)

TravEnterObject ==
  /\ trav.pc = "value"
  /\ PeekTypeOf(H) = kObjectType
  /\ EnterObject
  /\ Logged(Mark("{"), Append(trav.stack, "obj"), "key")

TravEnterArray ==
  /\ trav.pc = "value"
  /\ PeekTypeOf(H) = kArrayType
  /\ EnterArray
  /\ Logged(Mark("["), Append(trav.stack, "arr"), "elem")

TravGetInt ==
  /\ trav.pc = "value"
  /\ PeekTypeOf(H) = kNumberType
  /\ IsInt(v_)
  /\ GetInt
  /\ Logged(ItemOfInt(call'.ret.i), trav.stack, Up(trav.stack))

TravGetDouble ==
  /\ trav.pc = "value"
  /\ PeekTypeOf(H) = kNumberType
  /\ ~IsInt(v_)
  /\ GetDouble
  /\ Logged(Item("number", FALSE, call'.ret.d.hi, call'.ret.d.lo,
                 call'.ret.d.fr, ""), trav.stack, Up(trav.stack))

TravGetBool ==
  /\ trav.pc = "value"
  /\ PeekTypeOf(H) \in {kTrueType, kFalseType}
  /\ GetBool
  /\ Logged(Item("bool", call'.ret.b, 0, 0, 0, ""), trav.stack, Up(trav.stack))

TravGetNull ==
  /\ trav.pc = "value"
  /\ PeekTypeOf(H) = kNullType
  /\ GetNull
  /\ Logged(Mark("null"), trav.stack, Up(trav.stack))

TravGetString ==
  /\ trav.pc = "value"
  /\ PeekTypeOf(H) = kStringType
  /\ GetString
  /\ IF call'.ret = RetNullPtr
       THEN trav' = [trav EXCEPT !.pc = "fail"]
       ELSE Logged(Item("string", FALSE, 0, 0, 0, call'.ret.s), trav.stack,
                   Up(trav.stack))

TravNoValue ==
  /\ trav.pc = "value"
  /\ PeekTypeOf(H) = -1
  /\ trav' = [trav EXCEPT !.pc = "fail"]
  /\ UNCHANGED parserVars

TravNextObjectKey ==
  /\ trav.pc = "key"
  /\ NextObjectKey
  /\ IF call'.ret = RetNullPtr
       THEN Logged(Mark("}"), Pop(trav.stack), Up(Pop(trav.stack)))
       ELSE Logged(Item("key", FALSE, 0, 0, 0, call'.ret.s), trav.stack, "value")

TravNextArrayValue ==
  /\ trav.pc = "elem"
  /\ NextArrayValue
  /\ IF call'.ret.b
       THEN trav' = [trav EXCEPT !.pc = "value"]
       ELSE Logged(Mark("]"), Pop(trav.stack), Up(Pop(trav.stack)))

TravNext ==
  \/ TravEnterObject
  \/ TravEnterArray
  \/ TravGetInt
  \/ TravGetDouble
  \/ TravGetBool
  \/ TravGetNull
  \/ TravGetString
  \/ TravNoValue
  \/ TravNextObjectKey
  \/ TravNextArrayValue

TravSpec == TravInit /\ [][TravNext]_vars

\* ------------------------------------------------------------ properties
Getters == {"GetInt", "GetDouble", "GetBool", "GetString", "GetNull"}
Peeks == {"PeekValue", "PeekType", "IsValid"}
ScalarStates == {kHasNull, kHasBool, kHasNumber, kHasString}
EnteringStates == {kEnteringObject, kEnteringArray}

\* The event that set the token a call found (the last one tokenized then).
TokenEvent == ss_[call.len0]

\* The position of the close event matching the open event at position p of
\* ss (0: not tokenized yet).
RECURSIVE CloseFrom(_, _, _)
CloseFrom(ss, i, d) ==
  IF i > Len(ss) THEN 0
  ELSE LET d2 == IF ss[i].ev \in {"StartObject", "StartArray"} THEN d + 1
                 ELSE IF ss[i].ev \in {"EndObject", "EndArray"} THEN d - 1
                 ELSE d
       IN IF d2 = 0 THEN i ELSE CloseFrom(ss, i + 1, d2)

MatchingClose(ss, p) == CloseFrom(ss, p, 0)

\* The current token is the event at position i, freshly tokenized.
TokenAt(i) ==
  /\ Len(ss_) = i
  /\ st_ = Dispatch(H, ss_[i]).st_
  /\ v_ = Dispatch(H, ss_[i]).v_

\* C1: once the state is kError a public call leaves it kError, IsValid
\* returns false, and no call asks the reader for an event.
C1_ErrorAbsorbing ==
  call.st0 = kError =>
    /\ st_ = kError
    /\ call.asks = 0
    /\ call.op = "IsValid" => call.ret = RetBool(FALSE)

\* A skip was called in kError, set by a mismatch while the reader had more
\* events to give, and has returned.
C1_Witness ==
  /\ call.st0 = kError
  /\ call.op = "SkipValue"
  /\ pc = "idle"
  /\ ~r_.err
  /\ r_.state # "Finish"

\* C2 (as claimed): when the reader reports a syntax error during the fetch of
\* a navigation call, the state is kError when that call returns.
C2_ErrorWhenFetchFails ==
  (pc = "idle" /\ call.op # "LookaheadParser" /\ r_.err /\ ~call.err0) =>
    st_ = kError

\* C3 (as claimed): after construction the state is never kInit.
C3_NeverInit == st_ # kInit

\* The results a getter returns on a mismatch.
Sentinel(op) ==
  CASE op = "GetInt" -> RetInt(0)
    [] op = "GetDouble" -> RetDouble([hi |-> 0, lo |-> 0, fr |-> 0])
    [] op = "GetBool" -> RetBool(FALSE)
    [] op = "GetString" -> RetNullPtr
    [] op = "GetNull" -> RetVoid

\* The state is of the getter's own kind (for GetInt: a number that is a
\* native int).
OwnKind(op, st, e) ==
  CASE op = "GetInt" -> st = kHasNumber /\ e.ev # "Double" /\ e.hi \in {-1, 0}
    [] op = "GetDouble" -> st = kHasNumber
    [] op = "GetBool" -> st = kHasBool
    [] op = "GetString" -> st = kHasString
    [] op = "GetNull" -> st = kHasNull

\* The result that hands out the value of event e.
ValueOf(op, e) ==
  CASE op = "GetInt" -> RetInt(IF e.hi = 0 THEN e.lo ELSE (e.lo - IntMax) - 1)
    [] op = "GetDouble" -> RetDouble([hi |-> e.hi, lo |-> e.lo, fr |-> e.fr])
    [] op = "GetBool" -> RetBool(e.b)
    [] op = "GetString" -> RetStr(e.s)
    [] op = "GetNull" -> RetVoid

\* The state of the getter's scalar kind.
KindState(op) ==
  CASE op = "GetInt" -> kHasNumber
    [] op = "GetDouble" -> kHasNumber
    [] op = "GetBool" -> kHasBool
    [] op = "GetString" -> kHasString
    [] op = "GetNull" -> kHasNull

\* C7 (as claimed): a getter called in a state other than that of its own
\* scalar kind returns its sentinel, sets kError and does not fetch; called in
\* the state of its own kind it returns the buffered value and fetches exactly
\* once.
C7_GettersByState ==
  (pc = "idle" /\ call.op \in Getters) =>
    IF call.st0 = KindState(call.op)
      THEN /\ call.ret = ValueOf(call.op, TokenEvent)
           /\ call.fetches = 1
      ELSE /\ call.ret = Sentinel(call.op)
           /\ st_ = kError
           /\ call.fetches = 0
           /\ call.asks = 0

\* C7 (amended): the same, with kHasNumber holding a number that is no native
\* int counted among the states that are not of GetInt's own kind.
C7_Getters ==
  (pc = "idle" /\ call.op \in Getters) =>
    IF call.st0 \in ScalarStates /\ OwnKind(call.op, call.st0, TokenEvent)
      THEN /\ call.ret = ValueOf(call.op, TokenEvent)
           /\ call.fetches = 1
      ELSE /\ call.ret = Sentinel(call.op)
           /\ st_ = kError
           /\ call.fetches = 0
           /\ call.asks = 0

\* GetString was called on a key.
C7_Witness ==
  /\ call.op = "GetString"
  /\ call.st0 = kHasKey
  /\ st_ = kError

\* C8: GetInt returns the number and fetches once only in kHasNumber with a
\* number that is a native int; a number from a Double event, or from a
\* Uint/Int64/Uint64 event outside the int range, gives 0 and kError with no
\* fetch.  GetDouble succeeds in every kHasNumber state and returns the number
\* as a double.
C8_Numbers ==
  pc = "idle" =>
    /\ call.op = "GetInt" =>
         IF call.st0 = kHasNumber /\ TokenEvent.ev # "Double"
            /\ TokenEvent.hi \in {-1, 0}
           THEN /\ call.ret = ValueOf("GetInt", TokenEvent)
                /\ call.fetches = 1
           ELSE /\ call.ret = RetInt(0)
                /\ st_ = kError
                /\ call.fetches = 0
    /\ (call.op = "GetDouble" /\ call.st0 = kHasNumber) =>
         /\ call.ret = ValueOf("GetDouble", TokenEvent)
         /\ call.fetches = 1

\* GetInt was called on 2^31, which a Uint event delivered.
C8_Witness ==
  /\ call.op = "GetInt"
  /\ call.st0 = kHasNumber
  /\ call.v0.rep = "Uint"
  /\ call.v0.hi = 1
  /\ st_ = kError

\* C9: PeekValue, PeekType and IsValid change neither the state, the buffered
\* value, the reader nor the stream, and repeated return what they returned.
C9_PeeksChangeNothing ==
  [][call'.op \in Peeks =>
       /\ UNCHANGED <<st_, v_, r_, ss_, pc, depth>>
       /\ call.op = call'.op => call'.ret = call.ret]_vars

\* PeekType was called on a key.
C9_Witness ==
  /\ call.op = "PeekType"
  /\ call.ret = RetInt(kStringType)
  /\ st_ = kHasKey

\* C10: NextArrayValue in kExitingArray fetches once and returns false; in
\* kError, kExitingObject or kHasKey it sets kError and returns false without
\* fetching; in any other state it returns true and changes nothing.
C10_NextArrayValue ==
  (pc = "idle" /\ call.op = "NextArrayValue") =>
    CASE call.st0 = kExitingArray ->
           /\ call.ret = RetBool(FALSE)
           /\ call.fetches = 1
      [] call.st0 \in {kError, kExitingObject, kHasKey} ->
           /\ call.ret = RetBool(FALSE)
           /\ st_ = kError
           /\ call.fetches = 0
           /\ call.asks = 0
      [] OTHER ->
           /\ call.ret = RetBool(TRUE)
           /\ call.fetches = 0
           /\ call.asks = 0
           /\ st_ = call.st0
           /\ v_ = call.v0
           /\ Len(ss_) = call.len0
           /\ r_.err = call.err0

\* NextArrayValue was called on the open event of an inner array.
C10_Witness ==
  /\ call.op = "NextArrayValue"
  /\ call.ret = RetBool(TRUE)
  /\ st_ = kEnteringArray
  /\ Len(ss_) > 1

\* C4: the traversal of a well-formed document returns exactly the
\* document's keys and scalar values, in document order and with its nesting,
\* and IsValid() is true after every call of it.
C4_RoundTrip ==
  ~r_.err =>
    /\ st_ # kError
    /\ trav.pc # "fail"
    /\ trav.pc = "done" => (r_.state = "Finish" /\ trav.log = Document)

\* The traversal of a well-formed document holding an array in an object
\* is done.
C4_Witness ==
  /\ trav.pc = "done"
  /\ ~r_.err
  /\ \E i \in 1..Len(trav.log) : trav.log[i].k = "key"
  /\ \E i \in 1..Len(trav.log) : trav.log[i].k = "["

\* Where a skip that started at the open event at position p has left the
\* token: at the event after the matching close event.
LandedAfter(p) == TokenAt(MatchingClose(ss_, p) + 1)

\* The same, except for the container that is the whole document: no event
\* follows its close event, which stays the current token.
LandedAfterOrAtEnd(p) ==
  IF p = 1 THEN MatchingClose(ss_, p) > 0 /\ TokenAt(MatchingClose(ss_, p))
  ELSE LandedAfter(p)

\* C5 (as claimed): in a well-formed document SkipValue on a scalar fetches
\* exactly once, and SkipValue on kEnteringObject or kEnteringArray leaves the
\* token at the event after the container's matching close event; the state
\* is not kError afterwards.
C5_SkipValueLandsAfter ==
  (pc = "idle" /\ call.op = "SkipValue" /\ ~r_.err) =>
    /\ call.st0 \in ScalarStates => (call.fetches = 1 /\ st_ # kError)
    /\ call.st0 \in EnteringStates => (st_ # kError /\ LandedAfter(call.from))

\* C5 (amended): the same, except that skipping the container that is the
\* whole document leaves the token at that container's close event.
C5_SkipValue ==
  (pc = "idle" /\ call.op = "SkipValue" /\ ~r_.err) =>
    /\ call.st0 \in ScalarStates => (call.fetches = 1 /\ st_ # kError)
    /\ call.st0 \in EnteringStates =>
         (st_ # kError /\ LandedAfterOrAtEnd(call.from))

\* SkipValue has skipped an inner container that is not empty.
C5_Witness ==
  /\ pc = "idle"
  /\ call.op = "SkipValue"
  /\ call.st0 \in EnteringStates
  /\ ~r_.err
  /\ call.from > 1
  /\ MatchingClose(ss_, call.from) > call.from + 1

\* C6 (as claimed): in a well-formed document SkipArray right after a
\* successful EnterArray, and SkipObject right after a successful EnterObject,
\* leave the token at the event after the matching close event of the
\* container entered; the state is not kError afterwards.
C6_SkipEnteredLandsAfter ==
  (pc = "idle" /\ call.op \in {"SkipArray", "SkipObject"} /\ call.from > 0
   /\ ~r_.err) =>
    (st_ # kError /\ LandedAfter(call.from))

\* C6 (amended): the same, except that skipping the container that is the
\* whole document leaves the token at that container's close event.
C6_SkipEntered ==
  (pc = "idle" /\ call.op \in {"SkipArray", "SkipObject"} /\ call.from > 0
   /\ ~r_.err) =>
    (st_ # kError /\ LandedAfterOrAtEnd(call.from))

\* SkipArray has skipped the rest of an inner array that is not empty.
C6_Witness ==
  /\ pc = "idle"
  /\ call.op = "SkipArray"
  /\ ~r_.err
  /\ call.from > 1
  /\ MatchingClose(ss_, call.from) > call.from + 1

\* C11: NextObjectKey called in kHasKey returns the key's text and fetches
\* exactly once; called in kExitingObject it fetches exactly once and returns
\* null; called in any other state it sets kError, returns null and does not
\* fetch.
C11_NextObjectKey ==
  (pc = "idle" /\ call.op = "NextObjectKey") =>
    IF call.st0 = kHasKey
      THEN /\ TokenEvent.ev = "Key"
           /\ call.ret = RetStr(TokenEvent.s)
           /\ call.fetches = 1
    ELSE IF call.st0 = kExitingObject
      THEN /\ call.ret = RetNullPtr
           /\ call.fetches = 1
    ELSE /\ call.ret = RetNullPtr
         /\ call.fetches = 0
         /\ call.asks = 0
         /\ st_ = kError
         /\ Len(ss_) = call.len0

\* NextObjectKey has returned the key "b", and the reader gave the event
\* after it.
C11_Witness ==
  /\ pc = "idle"
  /\ call.op = "NextObjectKey"
  /\ call.st0 = kHasKey
  /\ call.ret = RetStr("b")
  /\ Len(ss_) = call.len0 + 1

\* C12: EnterObject returns true and fetches exactly once if and only if the
\* state it finds is kEnteringObject, EnterArray if and only if it is
\* kEnteringArray; otherwise they return false, set kError and do not fetch.
C12_Enter ==
  (pc = "idle" /\ call.op \in {"EnterObject", "EnterArray"}) =>
    LET entering == IF call.op = "EnterObject" THEN kEnteringObject
                    ELSE kEnteringArray
    IN IF call.st0 = entering
         THEN /\ call.ret = RetBool(TRUE)
              /\ call.fetches = 1
         ELSE /\ call.ret = RetBool(FALSE)
              /\ call.fetches = 0
              /\ call.asks = 0
              /\ st_ = kError
              /\ Len(ss_) = call.len0

\* EnterObject has entered an object nested in an array, and the reader gave
\* that object's first event.
C12_Witness ==
  /\ pc = "idle"
  /\ call.op = "EnterObject"
  /\ call.ret = RetBool(TRUE)
  /\ call.len0 = 2
  /\ ss_[1].ev = "StartArray"
  /\ Len(ss_) = 3

Skips == {"SkipValue", "SkipArray", "SkipObject"}

\* The token (state st, value v) is one that op goes on with.
Admits(op, st, v) ==
  CASE op = "EnterObject" -> st = kEnteringObject
    [] op = "EnterArray" -> st = kEnteringArray
    [] op = "NextObjectKey" -> st \in {kHasKey, kExitingObject}
    [] op = "NextArrayValue" -> st \notin {kError, kExitingObject, kHasKey}
    [] op = "GetInt" -> st = kHasNumber /\ IsInt(v)
    [] op = "GetDouble" -> st = kHasNumber
    [] op = "GetBool" -> st = kHasBool
    [] op = "GetNull" -> st = kHasNull
    [] op = "GetString" -> st = kHasString
    [] OTHER -> TRUE

\* C14: a public call other than the skips asks the reader for at most one
\* event; PeekValue, PeekType, IsValid, a call whose token does not meet its
\* precondition, and a NextArrayValue that returns true ask for none.
C14_OneTokenLookahead ==
  (pc = "idle" /\ call.op \notin Skips \cup {"LookaheadParser"}) =>
    /\ call.asks <= 1
    /\ call.fetches <= 1
    /\ call.asks <= call.fetches
    /\ Len(ss_) <= call.len0 + call.asks
    /\ (\/ call.op \in Peeks
        \/ ~Admits(call.op, call.st0, call.v0)
        \/ call.op = "NextArrayValue" /\ call.ret = RetBool(TRUE))
         => (call.asks = 0 /\ call.fetches = 0 /\ Len(ss_) = call.len0)

\* NextArrayValue has returned true on a number inside an array whose next
\* event the reader has not been asked for.
C14_Witness ==
  /\ pc = "idle"
  /\ call.op = "NextArrayValue"
  /\ call.ret = RetBool(TRUE)
  /\ call.st0 = kHasNumber
  /\ call.asks = 0
  /\ ~r_.err
  /\ r_.state = "Element"
  /\ Len(ss_) = call.len0

ValueStates == {kHasNull, kHasBool, kHasNumber, kHasString, kHasKey}

\* C18: in kHasNull, kHasBool, kHasNumber, kHasString and kHasKey the buffered
\* value is a null, a boolean, a number, a string and a string; PeekValue
\* returns the buffered value in exactly those five states and no value in
\* kInit, kError and the structural states.
C18_StateValueConsistent ==
  /\ st_ = kHasNull => GetType(v_) = kNullType
  /\ st_ = kHasBool => GetType(v_) \in {kFalseType, kTrueType}
  /\ st_ = kHasNumber => GetType(v_) = kNumberType
  /\ st_ \in {kHasString, kHasKey} => GetType(v_) = kStringType
  /\ (pc = "idle" /\ call.op = "PeekValue") =>
       IF call.st0 \in ValueStates THEN call.ret = RetPtr(v_)
       ELSE call.ret = RetNullPtr

\* PeekValue has returned the null of a null token that follows a number in
\* an array.
C18_Witness ==
  /\ pc = "idle"
  /\ call.op = "PeekValue"
  /\ call.st0 = kHasNull
  /\ call.ret = RetPtr(SetNull)
  /\ call.len0 = 3
  /\ ss_[2].ev = "Uint"

StructuralStates == {kEnteringObject, kExitingObject, kEnteringArray, kExitingArray}

\* C20 (as claimed): in a structural state the value buffered by an earlier
\* scalar or key event is not retained: v_ is the empty value again.
C20_NoValueRetained ==
  st_ \in StructuralStates => v_ = SetNull

\* C20 (amended): in a structural state the buffered value is not observable:
\* PeekValue returns no value and PeekType returns the type of the container
\* when one is entered and -1 when one is left, whatever v_ still holds.
C20_NoValueObservable ==
  (pc = "idle" /\ call.st0 \in StructuralStates) =>
    /\ call.op = "PeekValue" => call.ret = RetNullPtr
    /\ call.op = "PeekType" =>
         call.ret = RetInt(CASE call.st0 = kEnteringObject -> kObjectType
                             [] call.st0 = kEnteringArray -> kArrayType
                             [] OTHER -> -1)

\* PeekValue was called on the open event of an object that is the value of
\* a key, while v_ still holds the key.
C20_Witness ==
  /\ pc = "idle"
  /\ call.op = "PeekValue"
  /\ call.st0 = kEnteringObject
  /\ call.v0 = SetString("a")
  /\ st_ = kEnteringObject
  /\ v_ = SetString("a")

ExitingStates == {kExitingObject, kExitingArray}

\* The containers that the first n events of ss_ open and do not close.
Balance(n) ==
  Cardinality({i \in 1..n : ss_[i].ev \in {"StartObject", "StartArray"}})
    - Cardinality({i \in 1..n : ss_[i].ev \in {"EndObject", "EndArray"}})

\* A SkipValue has returned that found a token other than kError with an event
\* after it, and the reader reported no syntax error.
SkipValueReturned ==
  /\ pc = "idle"
  /\ call.op = "SkipValue"
  /\ call.st0 # kError
  /\ ~r_.err
  /\ Len(ss_) > call.len0

\* The nesting depth of the cursor when the call began: that of the events
\* before the token it found.
DepthBefore == Balance(call.len0 - 1)

\* The nesting depth of the cursor now: that of the events before the current
\* token, and of all events when the call's last fetch found the document
\* finished.
DepthAfter ==
  IF Len(ss_) - call.len0 = call.fetches THEN Balance(Len(ss_) - 1)
  ELSE Balance(Len(ss_))

\* C16 (as claimed): SkipValue called in any state other than kError leaves
\* the nesting depth of the cursor as it was, also on kExitingArray,
\* kExitingObject and kHasKey.
C16_SkipValueKeepsDepth ==
  SkipValueReturned => DepthAfter = DepthBefore

\* C16 (amended): SkipValue leaves the nesting depth of the cursor as it was
\* when the token is a scalar, a key or the open event of a container; on the
\* close event of a container it consumes that event, and the depth is one
\* less.
C16_SkipValueDepth ==
  SkipValueReturned =>
    /\ call.st0 \notin ExitingStates => DepthAfter = DepthBefore
    /\ call.st0 \in ExitingStates =>
         (DepthAfter = DepthBefore - 1 /\ call.fetches = 1)
    /\ call.st0 = kHasKey => Len(ss_) = call.len0 + 1

\* SkipValue was called on the close event of an array nested in an array and
\* has returned with the event after it.
C16_Witness ==
  /\ SkipValueReturned
  /\ call.st0 = kExitingArray
  /\ DepthBefore = 2
  /\ DepthAfter = 1
  /\ Len(ss_) = call.len0 + 1

Consumers == Getters \cup {"EnterObject", "EnterArray", "NextObjectKey"}

\* Call c is a consuming call that succeeded: it handed the token it found
\* to the caller and fetched.
Delivered(c) ==
  /\ c.op \in Consumers
  /\ c.fetches = 1
  /\ c.op = "NextObjectKey" => c.st0 = kHasKey

\* C15 (as claimed): of two successive consuming calls that succeed, the
\* second acts on a token tokenized after the one the first acted on, also
\* when the fetch between them met a syntax error.
C15_NoTokenTwice ==
  [][(pc = "idle" /\ pc' = "idle" /\ Delivered(call) /\ Delivered(call'))
       => call'.len0 > call.len0]_vars

\* Any caller, with a skip that was called running on: SkipOut's loop takes
\* its next iteration as long as it has one to take.
FairSpec == Spec /\ WF_vars(SkipOut /\ UNCHANGED trav)

\* C13 (as claimed): every call returns after finitely many fetches; a skip
\* that was called returns, whatever the state and the document it is called
\* on.
C13_CallsReturn == (pc = "SkipOut") ~> (pc = "idle")

\* Any caller, in a build whose reader hands numbers over as raw numbers.
RawInit ==
  /\ Constructed([IterativeParseInit EXCEPT !.raw = TRUE])
  /\ trav = TravOff

RawSpec == RawInit /\ [][Next]_vars

\* The last event the reader emitted is a raw number.
RawNumberEmitted ==
  /\ Len(ss_) > 0
  /\ ss_[Len(ss_)].ev = "RawNumber"

\* C17 (as claimed): when the reader emits a raw number the fetch fails
\* closed: the raw number is no token, and the state is kError when that
\* fetch returns.
C17_RawNumberFailsClosed ==
  RawNumberEmitted =>
    /\ st_ = kError
    /\ v_ # SetString(RawNumberEvent.s)

\* ---------------------------------------------------- a derived handler
\* ParseNext is protected: a class derived from LookaheadParserHandler calls
\* it directly, in whatever state the handler is.
ParseNextCall ==
  /\ pc = "idle"
  /\ \E h \in ParseNext(H) :
       Return(h, "ParseNext", RetVoid, 1, Asks(H))

DerivedNext ==
  \/ Next
  \/ ParseNextCall /\ UNCHANGED trav

DerivedSpec == Init /\ [][DerivedNext]_vars

\* C19 (as claimed): ParseNext invoked in kError is a no-op: it does not ask
\* the reader for an event and leaves the state kError, whether a syntax error
\* or a mismatch set kError.
C19_ParseNextInErrorIsNoOp ==
  (call.op = "ParseNext" /\ call.st0 = kError) =>
    /\ st_ = kError
    /\ call.asks = 0
    /\ Len(ss_) = call.len0

====
